---- MODULE Spec2Model ----
(***************************************************************************)
(* Model of the publication uploader (uploader.js): the field validator    *)
(* validatePublication, the record normalizer                              *)
(* preparePublicationForInsertion with generateSlug, and the batch         *)
(* orchestrator uploadPublications.                                        *)
(*                                                                         *)
(* JavaScript values are tagged records: the tag t is one of "undef",      *)
(* "null", "nan", "num", "bool", "str", "arr", "obj", "fn".  An object is  *)
(* a map from its own property names to values; a property that is not in  *)
(* the map reads as undefined.  Numbers are integers (and NaN).  A string  *)
(* holds a TLA+ string; the functions that look inside a string            *)
(* (generateSlug, parseFloat, includes, indexing) work on its sequence of  *)
(* characters, found in StringPool.  A character is a one-letter string,   *)
(* or "U+XXXX" for a letter outside ASCII.                                 *)
(***************************************************************************)
EXTENDS Integers, Sequences, FiniteSets, TLC

\* ------------------------------------------------------------------ bounds
\* Files listed by one run.
MaxFiles == 2
\* Records read by one run, over all its files.
MaxTotal == 3

\* ------------------------------------------------------------- JS values
Undef == [t |-> "undef"]
Null == [t |-> "null"]
NaN == [t |-> "nan"]
Num(n) == [t |-> "num", n |-> n]
Bool(b) == [t |-> "bool", b |-> b]
Str(s) == [t |-> "str", s |-> s]
Arr(a) == [t |-> "arr", a |-> a]
Obj(f) == [t |-> "obj", f |-> f]
Fn(name) == [t |-> "fn", name |-> name]

EmptyMap == [k \in {} |-> Undef]
Put(m, k, v) == [x \in DOMAIN m \cup {k} |-> IF x = k THEN v ELSE m[x]]
Del(m, k) == [x \in DOMAIN m \ {k} |-> m[x]]
\* {...a, ...b}: the keys of both, b's value where both have the key.
Spread(a, b) == [x \in DOMAIN a \cup DOMAIN b |-> IF x \in DOMAIN b THEN b[x] ELSE a[x]]

\* ToBoolean: what !v and v || w test.
Truthy(v) ==
  CASE v.t \in {"undef", "null", "nan"} -> FALSE
    [] v.t = "num" -> v.n # 0
    [] v.t = "bool" -> v.b
    [] v.t = "str" -> v.s # ""
    [] OTHER -> TRUE

\* v || w
Or(v, w) == IF Truthy(v) THEN v ELSE w

\* o.k for a value o that is not null or undefined: an own property of an
\* object, undefined on a primitive (none of the names read is a property of
\* String, Number, Boolean or Array).
Get(o, k) == IF o.t = "obj" /\ k \in DOMAIN o.f THEN o.f[k] ELSE Undef

\* o.k = v in sloppy mode: a write to a primitive is dropped.
Set(o, k, v) == IF o.t = "obj" THEN Obj(Put(o.f, k, v)) ELSE o

\* delete o.k
Delete(o, k) == IF o.t = "obj" THEN Obj(Del(o.f, k)) ELSE o

\* ---------------------------------------------------------------- strings
RECURSIVE Join(_)
Join(cs) == IF cs = <<>> THEN "" ELSE Head(cs) \o Join(Tail(cs))

RECURSIVE JoinWith(_, _)
JoinWith(ss, sep) ==
  IF ss = <<>> THEN ""
  ELSE IF Len(ss) = 1 THEN ss[1]
  ELSE ss[1] \o sep \o JoinWith(Tail(ss), sep)

\* The strings whose characters the model reads.
StringPool ==
  { <<>>,
    <<"C", "a", "s", "a">>,
    <<"U+00A1", "V", "e", "n", "d", "o", " ", "C", "a", "s", "a", " ", "B", "o", "n", "i", "t", "a", "!">>,
    <<" ", "S", "e", " ", "v", "e", "n", "d", "e", " ">>,
    <<"a", "b", "c">>,
    <<"a", "_", "b">>,
    <<"1", "2">>,
    <<"-", "5">>,
    <<"5", "a", "b", "c">>,
    <<"9", "8", "7">>,
    <<"y", "e", "s">>,
    <<"Y", "E", "S">>,
    <<"y">>,
    <<"n", "o">> }

\* The characters of a string of the pool.
CharsOf(s) == CHOOSE cs \in StringPool : Join(cs) = s

Digits == <<"0", "1", "2", "3", "4", "5", "6", "7", "8", "9">>
IsDigit(c) == \E i \in 1..10 : Digits[i] = c
DigitVal(c) == (CHOOSE i \in 1..10 : Digits[i] = c) - 1
WhiteSpace == {" ", "\t", "\n", "\r", "\f", "U+00A0"}

\* String(v), `${v}`
RECURSIVE JsToString(_)
JsToString(v) ==
  CASE v.t = "undef" -> "undefined"
    [] v.t = "null" -> "null"
    [] v.t = "nan" -> "NaN"
    [] v.t = "num" -> ToString(v.n)
    [] v.t = "bool" -> IF v.b THEN "true" ELSE "false"
    [] v.t = "str" -> v.s
    [] v.t = "arr" -> JoinWith([i \in 1..Len(v.a) |->
                                 IF v.a[i].t \in {"undef", "null"} THEN "" ELSE JsToString(v.a[i])], ",")
    [] v.t = "fn" -> "function " \o v.name \o "() { [native code] }"
    [] OTHER -> "[object Object]"

\* The digits at the head of cs, as a number, after the digits acc already read.
RECURSIVE DigitsValue(_, _)
DigitsValue(cs, acc) ==
  IF cs # <<>> /\ IsDigit(Head(cs)) THEN DigitsValue(Tail(cs), 10 * acc + DigitVal(Head(cs)))
  ELSE acc

RECURSIVE SkipSpace(_)
SkipSpace(cs) == IF cs # <<>> /\ Head(cs) \in WhiteSpace THEN SkipSpace(Tail(cs)) ELSE cs

\* parseFloat of a string, on integers: leading white space, a sign, digits;
\* what follows the digits is ignored, no digit gives NaN.
ParseFloatChars(cs) ==
  LET s == SkipSpace(cs)
      neg == s # <<>> /\ Head(s) = "-"
      body == IF s # <<>> /\ Head(s) \in {"-", "+"} THEN Tail(s) ELSE s
  IN IF body = <<>> \/ ~IsDigit(Head(body)) THEN NaN
     ELSE Num(IF neg THEN 0 - DigitsValue(body, 0) ELSE DigitsValue(body, 0))

\* parseFloat(v): of a number the number, of anything else the parse of String(v).
ParseFloat(v) ==
  CASE v.t = "num" -> v
    [] v.t = "nan" -> NaN
    [] v.t = "str" -> ParseFloatChars(CharsOf(v.s))
    [] v.t = "arr" -> IF v.a # <<>> /\ v.a[1].t = "num" THEN v.a[1]
                      ELSE IF v.a # <<>> /\ v.a[1].t = "str" THEN ParseFloatChars(CharsOf(v.a[1].s))
                      ELSE NaN
    [] OTHER -> NaN

\* isNaN(x) || x < 0 on a parsed number
IsNaNOrNegative(x) == x.t = "nan" \/ x.n < 0

\* v[0]
Index0(v) ==
  CASE v.t = "arr" -> IF v.a = <<>> THEN Undef ELSE v.a[1]
    [] v.t = "str" -> IF v.s = "" THEN Undef ELSE Str(Head(CharsOf(v.s)))
    [] v.t = "obj" -> Get(v, "0")
    [] OTHER -> Undef

\* ---------------------------------------------------------- category table
CategoryNames ==
  <<"empleos", "inmuebles", "vehiculos", "servicios", "productos", "eventos", "negocios", "comunidad">>

\* The own properties of CATEGORY_COLLECTIONS.
CATEGORY_COLLECTIONS == [i \in 1..Len(CategoryNames) |-> <<CategoryNames[i], "publications_" \o CategoryNames[i]>>]

\* Properties every object literal inherits from Object.prototype.
ObjectPrototypeKeys ==
  {"constructor", "toString", "toLocaleString", "valueOf", "hasOwnProperty", "isPrototypeOf",
   "propertyIsEnumerable", "__proto__", "__defineGetter__", "__defineSetter__",
   "__lookupGetter__", "__lookupSetter__"}

\* CATEGORY_COLLECTIONS[v]: the key is String(v); an own property gives its
\* collection name, an inherited one the inherited value, anything else
\* undefined.
CategoryLookup(v) ==
  LET key == JsToString(v)
  IN IF \E i \in 1..Len(CATEGORY_COLLECTIONS) : CATEGORY_COLLECTIONS[i][1] = key
     THEN Str(CATEGORY_COLLECTIONS[CHOOSE i \in 1..Len(CATEGORY_COLLECTIONS) : CATEGORY_COLLECTIONS[i][1] = key][2])
     ELSE IF key \in ObjectPrototypeKeys THEN (IF key = "__proto__" THEN Obj(EmptyMap) ELSE Fn(key))
     ELSE Undef

\* Object.keys(CATEGORY_COLLECTIONS)
CategoryKeys == [i \in 1..Len(CATEGORY_COLLECTIONS) |-> CATEGORY_COLLECTIONS[i][1]]

\* ------------------------------------------------------------ identifiers
ShortIdMin == 1000
ShortIdSpan == 9000

\* generateShortId: Math.floor(1000 + Math.random() * 9000).toString(), for a
\* random number r in 0..ShortIdSpan-1 standing for Math.floor(Math.random() * 9000).
generateShortId(r) == Str(ToString(ShortIdMin + r))

\* The random draws the model takes: both ends of the range.
RandomDraws == {0, ShortIdSpan - 1}

\* new Date().toISOString()
NowPool == {Str("2025-04-24T00:00:00.000Z")}

\* ------------------------------------------------------------------ slugs
MaxSlugLen == 80

UpperCase ==
  <<"A", "B", "C", "D", "E", "F", "G", "H", "I", "J", "K", "L", "M", "N", "O", "P", "Q", "R",
    "S", "T", "U", "V", "W", "X", "Y", "Z",
    "U+00C1", "U+00C9", "U+00CD", "U+00D3", "U+00DA", "U+00DC", "U+00D1",
    "U+00C0", "U+00C4", "U+00C2">>
LowerCase ==
  <<"a", "b", "c", "d", "e", "f", "g", "h", "i", "j", "k", "l", "m", "n", "o", "p", "q", "r",
    "s", "t", "u", "v", "w", "x", "y", "z",
    "U+00E1", "U+00E9", "U+00ED", "U+00F3", "U+00FA", "U+00FC", "U+00F1",
    "U+00E0", "U+00E4", "U+00E2">>

ToLowerChar(c) ==
  IF \E i \in 1..Len(UpperCase) : UpperCase[i] = c
  THEN LowerCase[CHOOSE i \in 1..Len(UpperCase) : UpperCase[i] = c]
  ELSE c

\* \w
WordChars ==
  {LowerCase[i] : i \in 1..26} \cup {UpperCase[i] : i \in 1..26}
    \cup {Digits[i] : i \in 1..10} \cup {"_"}

\* The letters [^\w\sáéíóúüñ] keeps besides \w and \s: á é í ó ú ü ñ.
KeptAccents == {"U+00E1", "U+00E9", "U+00ED", "U+00F3", "U+00FA", "U+00FC", "U+00F1"}

\* The replacements of lines 266-271.
Transliterate(c) ==
  CASE c \in {"U+00E1", "U+00E0", "U+00E4", "U+00E2"} -> "a"
    [] c \in {"U+00E9", "U+00E8", "U+00EB", "U+00EA"} -> "e"
    [] c \in {"U+00ED", "U+00EC", "U+00EF", "U+00EE"} -> "i"
    [] c \in {"U+00F3", "U+00F2", "U+00F6", "U+00F4"} -> "o"
    [] c \in {"U+00FA", "U+00F9", "U+00FC", "U+00FB"} -> "u"
    [] c = "U+00F1" -> "n"
    [] OTHER -> c

\* replace(/\s+/g, "-"): each run of white space becomes one hyphen.
RECURSIVE SpaceRunsToHyphen(_)
SpaceRunsToHyphen(cs) ==
  IF cs = <<>> THEN <<>>
  ELSE IF Head(cs) \in WhiteSpace THEN <<"-">> \o SpaceRunsToHyphen(SkipSpace(cs))
  ELSE <<Head(cs)>> \o SpaceRunsToHyphen(Tail(cs))

\* replace(/-+/g, "-")
RECURSIVE CollapseHyphens(_)
CollapseHyphens(cs) ==
  IF cs = <<>> THEN <<>>
  ELSE IF Head(cs) = "-" /\ Len(cs) > 1 /\ cs[2] = "-" THEN CollapseHyphens(Tail(cs))
  ELSE <<Head(cs)>> \o CollapseHyphens(Tail(cs))

RECURSIVE DropTrailingSpace(_)
DropTrailingSpace(cs) ==
  IF cs # <<>> /\ cs[Len(cs)] \in WhiteSpace THEN DropTrailingSpace(SubSeq(cs, 1, Len(cs) - 1)) ELSE cs

\* trim(): white space off both ends.
Trim(cs) == DropTrailingSpace(SkipSpace(cs))

\* substring(0, n)
Substring0(cs, n) == SubSeq(cs, 1, IF Len(cs) < n THEN Len(cs) ELSE n)

\* generateSlug without the toLowerCase of line 263.
generateSlugKeepsCase(title) ==
  LET kept == SelectSeq(title, LAMBDA c : c \in WordChars \cup WhiteSpace \cup KeptAccents)
      hyph == SpaceRunsToHyphen(kept)
      plain == [i \in 1..Len(hyph) |-> Transliterate(hyph[i])]
  IN Substring0(Trim(CollapseHyphens(plain)), MaxSlugLen)

\* generateSlug on the characters of the title.
generateSlug(title) ==
  LET lower == [i \in 1..Len(title) |-> ToLowerChar(title[i])]
      kept == SelectSeq(lower, LAMBDA c : c \in WordChars \cup WhiteSpace \cup KeptAccents)
      hyph == SpaceRunsToHyphen(kept)
      plain == [i \in 1..Len(hyph) |-> Transliterate(hyph[i])]
  IN Substring0(Trim(CollapseHyphens(plain)), MaxSlugLen)

\* The characters of a string literal of the source that is plain ASCII.
Ascii(s) == [i \in 1..Len(s) |-> SubSeq(s, i, i)]

\* lowerTitle.includes(k) on the characters of both.
Includes(cs, k) == \E i \in 1..(Len(cs) - Len(k) + 1) : SubSeq(cs, i, i + Len(k) - 1) = k

\* Lines 283-297.
InmueblesPattern(lowerTitle) ==
  \/ Includes(lowerTitle, Ascii("alquilo"))
  \/ Includes(lowerTitle, Ascii("alquiler"))
  \/ Includes(lowerTitle, Ascii("vendo terreno"))
  \/ Includes(lowerTitle, Ascii("vendo lote"))
  \/ Includes(lowerTitle, Ascii("vendo casa"))
  \/ Includes(lowerTitle, Ascii("vendo departamento"))
  \/ Includes(lowerTitle, Ascii("anticresis"))
  \/ Includes(lowerTitle, Ascii("inmueble"))
  \/ Includes(lowerTitle, Ascii("habitaci") \o <<"U+00F3">> \o Ascii("n"))
  \/ Includes(lowerTitle, Ascii("oficina"))
  \/ Includes(lowerTitle, Ascii("local comercial"))

\* Lines 299-309.
VehiculosPattern(lowerTitle) ==
  \/ Includes(lowerTitle, Ascii("auto"))
  \/ Includes(lowerTitle, Ascii("camioneta"))
  \/ Includes(lowerTitle, Ascii("veh") \o <<"U+00ED">> \o Ascii("culo"))
  \/ Includes(lowerTitle, Ascii("carro"))
  \/ Includes(lowerTitle, Ascii("moto"))
  \/ Includes(lowerTitle, Ascii("cami") \o <<"U+00F3">> \o Ascii("n"))

\* Lines 311-321.
EmpleosPattern(lowerTitle) ==
  \/ Includes(lowerTitle, Ascii("necesito"))
  \/ Includes(lowerTitle, Ascii("se necesita"))
  \/ Includes(lowerTitle, Ascii("busco personal"))
  \/ Includes(lowerTitle, Ascii("oportunidad laboral"))
  \/ Includes(lowerTitle, Ascii("requiere personal"))
  \/ Includes(lowerTitle, Ascii("empleo"))

\* Lines 323-335.
ServiciosPattern(lowerTitle) ==
  \/ Includes(lowerTitle, Ascii("servicio"))
  \/ Includes(lowerTitle, Ascii("reparaci") \o <<"U+00F3">> \o Ascii("n"))
  \/ Includes(lowerTitle, Ascii("mantenimiento"))
  \/ Includes(lowerTitle, Ascii("clases"))
  \/ Includes(lowerTitle, Ascii("profesor"))
  \/ Includes(lowerTitle, Ascii("terapia"))
  \/ Includes(lowerTitle, Ascii("consultor") \o <<"U+00ED">> \o Ascii("a"))
  \/ Includes(lowerTitle, Ascii("asesor") \o <<"U+00ED">> \o Ascii("a"))

\* Lines 337-347.
ProductosPattern(lowerTitle) ==
  /\ Includes(lowerTitle, Ascii("vendo"))
  /\ ~Includes(lowerTitle, Ascii("vendo terreno"))
  /\ ~Includes(lowerTitle, Ascii("vendo casa"))
  /\ ~Includes(lowerTitle, Ascii("vendo departamento"))
  /\ ~Includes(lowerTitle, Ascii("vendo lote"))

\* Lines 349-357.
EventosPattern(lowerTitle) ==
  \/ Includes(lowerTitle, Ascii("evento"))
  \/ Includes(lowerTitle, Ascii("fiesta"))
  \/ Includes(lowerTitle, Ascii("concierto"))
  \/ Includes(lowerTitle, Ascii("celebraci") \o <<"U+00F3">> \o Ascii("n"))

\* Lines 359-367.
ComunidadPattern(lowerTitle) ==
  \/ Includes(lowerTitle, Ascii("comunidad"))
  \/ Includes(lowerTitle, Ascii("perdido"))
  \/ Includes(lowerTitle, Ascii("encontrado"))
  \/ Includes(lowerTitle, Ascii("donaci") \o <<"U+00F3">> \o Ascii("n"))

\* Lines 369-376.
NegociosPattern(lowerTitle) ==
  \/ Includes(lowerTitle, Ascii("negocio"))
  \/ Includes(lowerTitle, Ascii("traspaso"))
  \/ Includes(lowerTitle, Ascii("inversi") \o <<"U+00F3">> \o Ascii("n"))

\* title.toLowerCase() on the characters of the title.
LowerTitle(title) == [i \in 1..Len(title) |-> ToLowerChar(title[i])]

\* detectCategory with the rule of the vehicles tried before the rule of the
\* real estate.
detectCategoryVehiclesFirst(title) ==
  IF VehiculosPattern(LowerTitle(title)) THEN "vehiculos"
  ELSE IF InmueblesPattern(LowerTitle(title)) THEN "inmuebles"
  ELSE IF EmpleosPattern(LowerTitle(title)) THEN "empleos"
  ELSE IF ServiciosPattern(LowerTitle(title)) THEN "servicios"
  ELSE IF ProductosPattern(LowerTitle(title)) THEN "productos"
  ELSE IF EventosPattern(LowerTitle(title)) THEN "eventos"
  ELSE IF ComunidadPattern(LowerTitle(title)) THEN "comunidad"
  ELSE IF NegociosPattern(LowerTitle(title)) THEN "negocios"
  ELSE "productos"

\* detectCategory on the characters of the title: lines 280-380, the rules in
\* the order of the source.
detectCategory(title) ==
  IF InmueblesPattern(LowerTitle(title)) THEN "inmuebles"
  ELSE IF VehiculosPattern(LowerTitle(title)) THEN "vehiculos"
  ELSE IF EmpleosPattern(LowerTitle(title)) THEN "empleos"
  ELSE IF ServiciosPattern(LowerTitle(title)) THEN "servicios"
  ELSE IF ProductosPattern(LowerTitle(title)) THEN "productos"
  ELSE IF EventosPattern(LowerTitle(title)) THEN "eventos"
  ELSE IF ComunidadPattern(LowerTitle(title)) THEN "comunidad"
  ELSE IF NegociosPattern(LowerTitle(title)) THEN "negocios"
  ELSE "productos"

\* -------------------------------------------------------------- validator
ValidationOk(p) == [threw |-> FALSE, valid |-> TRUE, error |-> "", pub |-> p]
ValidationError(p, msg) == [threw |-> FALSE, valid |-> FALSE, error |-> msg, pub |-> p]
ValidationThrew(p, msg) == [threw |-> TRUE, valid |-> FALSE, error |-> msg, pub |-> p]

\* Lines 387-392.
CategoryFallback(p) ==
  IF ~Truthy(Get(p, "category")) /\ Truthy(Get(p, "categorySlug"))
  THEN Set(p, "category", Get(p, "categorySlug"))
  ELSE p

\* Lines 395-396.
MissingFields(p) == SelectSeq(<<"title", "description">>, LAMBDA f : ~Truthy(Get(p, f)))

\* Lines 416-422.
SubcategoryFallback(p) ==
  LET q == IF ~Truthy(Get(p, "subcategory")) /\ Truthy(Get(p, "subcategorySlug"))
           THEN Set(p, "subcategory", Get(p, "subcategorySlug"))
           ELSE p
  IN IF ~Truthy(Get(q, "subsubcategory")) /\ Truthy(Get(q, "subSubcategorySlug"))
     THEN Set(q, "subsubcategory", Get(q, "subSubcategorySlug"))
     ELSE q

\* The contact built from the legacy phones array (lines 426-432, 512-518).
ContactFromPhones(contact) ==
  LET phone == Or(Index0(Get(contact, "phones")), Str(""))
  IN Obj([name |-> Or(Get(contact, "name"), Str("Anunciante")),
          phone |-> phone,
          whatsapp |-> phone,
          email |-> Or(Get(contact, "email"), Str("contacto@buscadis.com"))])

DefaultContact ==
  Obj([name |-> Str("Anunciante"), phone |-> Str("999999999"),
       whatsapp |-> Str("999999999"), email |-> Str("contacto@buscadis.com")])

\* Lines 425-440.
ContactDefaulting(p) ==
  LET contact == Get(p, "contact")
  IN IF Truthy(contact) /\ Truthy(Get(contact, "phones"))
     THEN Set(p, "contact", ContactFromPhones(contact))
     ELSE IF ~Truthy(contact) THEN Set(p, "contact", DefaultContact)
     ELSE p

\* DefaultLocation without the district of line 446.
DefaultLocationCityOnly == Obj([city |-> Str("Cusco")])

DefaultLocation == Obj([city |-> Str("Cusco"), district |-> Str("Cusco")])

\* Lines 443-452.
LocationDefaulting(p) ==
  LET location == Get(p, "location")
  IN IF ~Truthy(location) THEN Set(p, "location", DefaultLocation)
     ELSE IF Truthy(Get(location, "district")) /\ ~Truthy(Get(location, "city"))
     THEN Set(p, "location", Set(location, "city", Str("Cusco")))
     ELSE p

\* PriceInvalid without the test price < 0 of line 457.
PriceInvalidOnlyNaN(p) ==
  /\ Get(p, "price") # Undef
  /\ ParseFloat(Get(p, "price")).t = "nan"

\* Lines 455-463: the price is there and is no number >= 0.
PriceInvalid(p) ==
  /\ Get(p, "price") # Undef
  /\ IsNaNOrNegative(ParseFloat(Get(p, "price")))

\* validatePublication(publication): the result, with the publication as the
\* call leaves it (the fallbacks and defaults are written into the argument).
\* Reading a property of null throws a TypeError.
validatePublication(pub) ==
  IF pub.t \in {"null", "undef"}
  THEN ValidationThrew(pub,
         "Cannot read properties of " \o JsToString(pub) \o " (reading 'category')")
  ELSE
    LET p1 == CategoryFallback(pub)
        missing == MissingFields(p1)
        p5 == LocationDefaulting(ContactDefaulting(SubcategoryFallback(p1)))
    IN IF Len(missing) > 0
       THEN ValidationError(p1, "Missing required fields: " \o JoinWith(missing, ", "))
       ELSE IF ~Truthy(CategoryLookup(Get(p1, "category")))
       THEN ValidationError(p1, "Invalid category: " \o JsToString(Get(p1, "category"))
                                 \o ". Valid categories: " \o JoinWith(CategoryKeys, ", "))
       ELSE IF PriceInvalid(p5)
       THEN ValidationError(p5, "Invalid price: " \o JsToString(Get(p5, "price")))
       ELSE ValidationOk(p5)

\* ------------------------------------------------------------- normalizer
\* The own enumerable properties {...v} copies.
OwnProps(v) ==
  CASE v.t = "obj" -> v.f
    [] v.t = "arr" -> [k \in {ToString(i - 1) : i \in 1..Len(v.a)} |->
                        v.a[CHOOSE i \in 1..Len(v.a) : ToString(i - 1) = k]]
    [] v.t = "str" -> [k \in {ToString(i - 1) : i \in 1..Len(CharsOf(v.s))} |->
                        Str(CharsOf(v.s)[CHOOSE i \in 1..Len(CharsOf(v.s)) : ToString(i - 1) = k])]
    [] OTHER -> EmptyMap

\* v.includes("_") for a string or an array v.
IncludesUnderscore(v) ==
  IF v.t = "str" THEN \E i \in 1..Len(CharsOf(v.s)) : CharsOf(v.s)[i] = "_"
  ELSE \E i \in 1..Len(v.a) : v.a[i] = Str("_")

PrepareThrew(p, msg) == [threw |-> TRUE, error |-> msg, pub |-> p, prepared |-> Undef]
PrepareOk(p, prepared) == [threw |-> FALSE, error |-> "", pub |-> p, prepared |-> prepared]

\* Lines 480-484.
ProvinceToCity(p) ==
  LET location == Get(p, "location")
  IN IF Truthy(location) /\ Truthy(Get(location, "province")) /\ ~Truthy(Get(location, "city"))
     THEN Set(p, "location", Set(location, "city", Get(location, "province")))
     ELSE p

\* Lines 487-497.
SubcategoryOf(p) == Or(Or(Get(p, "subcategory"), Get(p, "subcategorySlug")), Str("general"))
SubsubcategoryOf(p) == Or(Or(Get(p, "subsubcategory"), Get(p, "subSubcategorySlug")), Str(""))

\* UrlPath without the segment of lines 494-496.
UrlPathWithoutSubsubcategory(p, shortId, slug) ==
  "/" \o JsToString(Get(p, "category")) \o "/" \o JsToString(SubcategoryOf(p))
    \o "/" \o JsToString(shortId) \o "-" \o slug

\* Lines 492-497: urlPath.
UrlPath(p, shortId, slug) ==
  "/" \o JsToString(Get(p, "category")) \o "/" \o JsToString(SubcategoryOf(p))
    \o (IF Truthy(SubsubcategoryOf(p)) THEN "/" \o JsToString(SubsubcategoryOf(p)) ELSE "")
    \o "/" \o JsToString(shortId) \o "-" \o slug

\* Lines 505-507.
AmountToPrice(p) ==
  IF Get(p, "amount") # Undef /\ Get(p, "price") = Undef
  THEN Set(p, "price", ParseFloat(Get(p, "amount")))
  ELSE p

\* Lines 510-519.
ContactOf(p) ==
  IF Truthy(Get(p, "contact")) /\ Truthy(Get(Get(p, "contact"), "phones"))
  THEN ContactFromPhones(Get(p, "contact"))
  ELSE Or(Get(p, "contact"), Obj(EmptyMap))

\* FeaturesOf with the two spreads of line 524 exchanged: the features win.
FeaturesOfFeaturesWin(p) ==
  LET features == Or(Get(p, "features"), Obj(EmptyMap))
  IN IF Truthy(Get(p, "attributes"))
     THEN Obj(Spread(OwnProps(Get(p, "attributes")), OwnProps(features)))
     ELSE features

\* Lines 522-525.
FeaturesOf(p) ==
  LET features == Or(Get(p, "features"), Obj(EmptyMap))
  IN IF Truthy(Get(p, "attributes"))
     THEN Obj(Spread(OwnProps(features), OwnProps(Get(p, "attributes"))))
     ELSE features

\* RemoveLegacy without the delete of line 550.
RemoveLegacyKeepsAmount(o) ==
  Delete(Delete(Delete(Delete(o, "categorySlug"), "subcategorySlug"),
                "subSubcategorySlug"), "attributes")

\* Lines 546-550.
RemoveLegacy(o) ==
  Delete(Delete(Delete(Delete(Delete(o, "categorySlug"), "subcategorySlug"),
                       "subSubcategorySlug"), "attributes"), "amount")

\* PriceCurrencyDefaults without the test of line 558: the currency is always
\* the default one.
CurrencyAlwaysDefault(o) ==
  LET q == IF Get(o, "price") = Undef THEN Set(o, "price", Num(0)) ELSE o
  IN Set(q, "currency", Str("PEN"))

\* Lines 553-560.
PriceCurrencyDefaults(o) ==
  LET q == IF Get(o, "price") = Undef THEN Set(o, "price", Num(0)) ELSE o
  IN IF ~Truthy(Get(q, "currency")) THEN Set(q, "currency", Str("PEN")) ELSE q

\* Lines 499-502: a missing id, or one that includes "_", is replaced by the
\* short id.
UseProvidedId(p, shortId) ==
  IF ~Truthy(Get(p, "id")) \/ IncludesUnderscore(Get(p, "id")) THEN Set(p, "id", shortId) ELSE p

\* Line 500: publication.id.includes throws when a truthy id is neither a
\* string nor an array.
IdThrows(p) ==
  Truthy(Get(p, "id")) /\ Get(p, "id").t \notin {"str", "arr"}

\* Lines 480-507: the argument as the call leaves it, after location.city, id
\* and price are written into it.
Migrated(pub, shortId) ==
  AmountToPrice(UseProvidedId(ProvinceToCity(pub), shortId))

\* Lines 527-551: the fields written over the spread of the publication.
Overrides(p, shortId, slug, now) ==
  [status |-> Or(Get(p, "status"), Str("active")),
   created_at |-> Or(Get(p, "created_at"), now),
   updated_at |-> Or(Get(p, "updated_at"), now),
   id |-> Str(JsToString(Get(p, "id"))),
   id_corto |-> shortId,
   slug |-> Str(slug),
   url_path |-> Str(UrlPath(p, shortId, slug)),
   subcategory |-> SubcategoryOf(p),
   subsubcategory |-> Or(SubsubcategoryOf(p), Undef),
   images |-> Or(Get(p, "images"), Arr(<<>>)),
   user_id |-> Or(Get(p, "user_id"), Str("admin")),
   contact |-> ContactOf(p),
   features |-> FeaturesOf(p)]

\* Lines 526-562: preparedPublication, built from the migrated publication.
PreparedPublication(p, shortId, slug, now) ==
  PriceCurrencyDefaults(RemoveLegacy(Obj(Spread(OwnProps(p), Overrides(p, shortId, slug, now)))))

\* preparePublicationForInsertion(publication), with the short id drawn and the
\* time read: the canonical publication, and the publication as the call
\* leaves it (id, price and location.city are written into the argument).  It
\* throws a TypeError when the title has no toLowerCase (line 477: it is not
\* a string) or a truthy id has no includes (line 500: it is neither a string
\* nor an array).
preparePublicationForInsertion(pub, shortId, now) ==
  IF Get(pub, "title").t # "str"
  THEN PrepareThrew(pub, "publication.title.toLowerCase is not a function")
  ELSE IF IdThrows(ProvinceToCity(pub))
  THEN PrepareThrew(ProvinceToCity(pub), "publication.id.includes is not a function")
  ELSE PrepareOk(Migrated(pub, shortId),
                 PreparedPublication(Migrated(pub, shortId), shortId,
                                     Join(generateSlug(CharsOf(Get(pub, "title").s))), now))

\* ------------------------------------------------------------------ state
VARIABLES
  \* process.argv: --dry-run, --force, and whether a source directory is named
  isDryRun, isForce, hasSourceDir,
  \* where uploadPublications stands
  pc,
  \* the names readdirSync returned, and the index of the file being processed
  files, fileIdx,
  \* the records of the file being processed, and the index of the next one
  publicationsArray, recIdx,
  \* results: [total, success, errors, skipped]
  results,
  \* the MongoDB client: "idle", "connected" or "closed"; its connect and
  \* close calls; the documents insertOne stored, in order; the insertOne calls
  \* made, in order, each with the record it was made for and the collection
  \* it addressed
  clientState, connects, closes, inserted, writes,
  \* the readline interface is open; the questions asked through it, and the
  \* answers given, in order
  rlOpen, asked, answers,
  \* the exit status of the process, -1 while it runs
  exitCode,
  \* the locals of the loop body after the last record processed: the object
  \* publication (validatePublication and preparePublicationForInsertion
  \* write into it), validation and preparedPublication
  publication, validation, preparedPublication,
  \* history: every record handed to validatePublication, in order, as it was
  \* parsed, with the index of its file and its index in the file
  seen,
  \* the calls made of generateSlug and detectCategory on their own, in
  \* order: the function, the title passed and what it returned
  calls

argVars == <<isDryRun, isForce, hasSourceDir>>
loopVars == <<files, fileIdx, publicationsArray, recIdx>>
clientVars == <<clientState, connects, closes, inserted, writes>>
recVars == <<publication, validation, preparedPublication>>
vars == <<argVars, pc, loopVars, results, clientVars, rlOpen, asked, answers, exitCode, seen, recVars, calls>>

\* Everything but the calls made of the title functions on their own.
runVars == <<argVars, pc, loopVars, results, clientVars, rlOpen, asked, answers, exitCode, seen, recVars>>

\* validation and preparedPublication before any record is processed.
NoResult == [threw |-> FALSE, valid |-> FALSE, error |-> "none", pub |-> Undef]
NoPrepared == [threw |-> FALSE, error |-> "none", pub |-> Undef, prepared |-> Undef]

\* ----------------------------------------------------------------- inputs
GoodRecord == Obj([title |-> Str("Casa"), description |-> Str("Casa en venta"), category |-> Str("empleos")])

\* The records the files of a run are made of: a valid one, one without a
\* title and with a negative price, null, and one whose title is a number.
RecPool ==
  { GoodRecord,
    Obj([description |-> Str("Casa en venta"), category |-> Str("inmuebles"), price |-> Num(-5)]),
    Null,
    Set(GoodRecord, "title", Num(7)) }

\* validatePublication on each record of RecPool, and
\* preparePublicationForInsertion on what it leaves of each valid one for each
\* short id and time drawn: the calls the runs over RecPool make, computed
\* once.  Validation and Preparation are the two calls of lines 642 and 659.
ValidationTable == [r \in RecPool |-> validatePublication(r)]
PreparationTable ==
  [r \in {x \in RecPool : ValidationTable[x].valid}, d \in RandomDraws, n \in NowPool |->
     preparePublicationForInsertion(ValidationTable[r].pub, generateShortId(d), n)]
Validation(r) ==
  IF r \in DOMAIN ValidationTable THEN ValidationTable[r] ELSE validatePublication(r)
Preparation(r, d, n) ==
  IF <<r, d, n>> \in DOMAIN PreparationTable
  THEN PreparationTable[r, d, n]
  ELSE preparePublicationForInsertion(validatePublication(r).pub, generateShortId(d), n)

SeqsUpTo(S, n) == UNION {[1..k -> S] : k \in 0..n}

\* What reading and parsing one file gives when at most n more records are
\* read: a failure, an array of records, or one value that is no array.
FileContents(n) ==
  {[ok |-> FALSE, json |-> Undef]}
    \cup {[ok |-> TRUE, json |-> Arr(a)] : a \in SeqsUpTo(RecPool, n)}
    \cup (IF n > 0 THEN {[ok |-> TRUE, json |-> r] : r \in RecPool} ELSE {})

FileName(i) == "file" \o ToString(i) \o ".json"

\* The answers given to the confirmation question.
AnswerPool == {"YES", "y", "no", ""}

\* answer.toLowerCase()
ToLowerCase(s) == Join([i \in 1..Len(CharsOf(s)) |-> ToLowerChar(CharsOf(s)[i])])

\* ------------------------------------------------------------------- Init
NoRecordYet ==
  /\ publication = Undef
  /\ validation = NoResult
  /\ preparedPublication = NoPrepared
  /\ seen = <<>>

Init ==
  /\ isDryRun \in BOOLEAN
  /\ isForce \in BOOLEAN
  /\ hasSourceDir \in BOOLEAN
  /\ pc = "start"
  /\ files = <<>>
  /\ fileIdx = 0
  /\ publicationsArray = <<>>
  /\ recIdx = 0
  /\ results = [total |-> 0, success |-> 0, errors |-> <<>>, skipped |-> 0]
  /\ clientState = "idle"
  /\ connects = 0
  /\ closes = 0
  /\ inserted = <<>>
  /\ writes = <<>>
  /\ rlOpen = TRUE
  /\ asked = 0
  /\ answers = <<>>
  /\ exitCode = -1
  /\ NoRecordYet
  /\ calls = <<>>

\* process.exit(code): the process ends there; no finally block runs.
Exit(code) ==
  /\ pc' = "exited"
  /\ exitCode' = code

\* ------------------------------------------------------- uploadPublications
\* Lines 227-238: no source directory among the arguments.
CheckArgs ==
  /\ pc = "start"
  /\ IF hasSourceDir THEN pc' = "exists" /\ UNCHANGED exitCode ELSE Exit(1)
  /\ UNCHANGED <<argVars, calls, loopVars, results, clientVars, rlOpen, asked, answers, seen, recVars>>

\* Lines 578-581.
CheckSourceDir ==
  /\ pc = "exists"
  /\ \E exists \in BOOLEAN :
       IF exists THEN pc' = "readdir" /\ UNCHANGED exitCode ELSE Exit(1)
  /\ UNCHANGED <<argVars, calls, loopVars, results, clientVars, rlOpen, asked, answers, seen, recVars>>

\* Lines 584-593: the .json files of the directory; none is fatal.
ListFiles ==
  /\ pc = "readdir"
  /\ \E n \in 0..MaxFiles :
       /\ files' = [i \in 1..n |-> FileName(i)]
       /\ IF n = 0 THEN Exit(1) ELSE pc' = "confirm" /\ UNCHANGED exitCode
  /\ UNCHANGED <<argVars, calls, fileIdx, publicationsArray, recIdx, results, clientVars, rlOpen, asked, answers, seen, recVars>>

\* Confirm without the test of line 600: the run goes on whatever the answer.
ConfirmIgnoresAnswer ==
  /\ pc = "confirm"
  /\ IF ~isForce /\ ~isDryRun
     THEN /\ asked' = asked + 1
          /\ \E answer \in AnswerPool : answers' = Append(answers, answer)
     ELSE UNCHANGED <<asked, answers>>
  /\ pc' = "connect"
  /\ UNCHANGED <<argVars, calls, loopVars, results, clientVars, rlOpen, exitCode, seen, recVars>>

\* Confirm without the test of --force at line 596: the question is asked
\* unless the run is a dry run.
ConfirmEvenIfForced ==
  /\ pc = "confirm"
  /\ IF ~isDryRun
     THEN /\ asked' = asked + 1
          /\ \E answer \in AnswerPool :
               /\ answers' = Append(answers, answer)
               /\ IF ToLowerCase(answer) # "yes" /\ ToLowerCase(answer) # "y"
                  THEN Exit(0)
                  ELSE pc' = "connect" /\ UNCHANGED exitCode
     ELSE /\ pc' = "connect"
          /\ UNCHANGED <<asked, answers, exitCode>>
  /\ UNCHANGED <<argVars, calls, loopVars, results, clientVars, rlOpen, seen, recVars>>

\* Lines 596-604: the question is asked unless --force or --dry-run is given;
\* any answer but yes or y, in any case, cancels the run with exit status 0.
Confirm ==
  /\ pc = "confirm"
  /\ IF ~isForce /\ ~isDryRun
     THEN /\ asked' = asked + 1
          /\ \E answer \in AnswerPool :
               /\ answers' = Append(answers, answer)
               /\ IF ToLowerCase(answer) # "yes" /\ ToLowerCase(answer) # "y"
                  THEN Exit(0)
                  ELSE pc' = "connect" /\ UNCHANGED exitCode
     ELSE /\ pc' = "connect"
          /\ UNCHANGED <<asked, answers, exitCode>>
  /\ UNCHANGED <<argVars, calls, loopVars, results, clientVars, rlOpen, seen, recVars>>

\* Connect without the test of line 607: the client connects in a dry run too.
ConnectInDryRun ==
  /\ pc = "connect"
  /\ connects' = connects + 1
  /\ \E ok \in BOOLEAN :
       IF ok
       THEN /\ clientState' = "connected"
            /\ pc' = "files"
            /\ fileIdx' = 1
            /\ UNCHANGED exitCode
       ELSE /\ Exit(1)
            /\ UNCHANGED <<clientState, fileIdx>>
  /\ UNCHANGED <<argVars, calls, files, publicationsArray, recIdx, results, closes, inserted, writes, rlOpen, asked, answers, seen, recVars>>

\* Lines 607-619: connect unless --dry-run; a failed connect is caught at line
\* 721 and ends the process with status 1.  Then the results start empty and
\* the loop over the files starts.
Connect ==
  /\ pc = "connect"
  /\ IF isDryRun
     THEN /\ pc' = "files"
          /\ fileIdx' = 1
          /\ UNCHANGED <<clientState, connects, exitCode>>
     ELSE /\ connects' = connects + 1
          /\ \E ok \in BOOLEAN :
               IF ok
               THEN /\ clientState' = "connected"
                    /\ pc' = "files"
                    /\ fileIdx' = 1
                    /\ UNCHANGED exitCode
               ELSE /\ Exit(1)
                    /\ UNCHANGED <<clientState, fileIdx>>
  /\ UNCHANGED <<argVars, calls, files, publicationsArray, recIdx, results, closes, inserted, writes, rlOpen, asked, answers, seen, recVars>>

\* What JSON.parse or readFileSync reports for a file that cannot be read.
FileErrorMessage == "Unexpected end of JSON input"
\* What insertOne reports when the write fails.
InsertErrorMessage == "connection closed"
\* What collection() reports for a name that is not a string.
CollectionErrorMessage == "Collection name must be a String"

\* The loop at line 621 moves to the next file, or past the last one to the summary.
NextFile ==
  /\ fileIdx' = fileIdx + 1
  /\ recIdx' = 0
  /\ pc' = IF fileIdx < Len(files) THEN "files" ELSE "summary"

\* The loop at line 639 moves to the next record, or past the last one to the next file.
NextRecord ==
  IF recIdx < Len(publicationsArray)
  THEN /\ recIdx' = recIdx + 1
       /\ UNCHANGED <<fileIdx, pc>>
  ELSE NextFile

\* The entry pushed at line 692.
FileErrorEntry(message) == [file |-> files[fileIdx], error |-> "File error: " \o message]

\* The entries pushed at lines 649 and 683.
RecordErrorEntry(pub, message) ==
  [file |-> files[fileIdx], title |-> Or(Get(pub, "title"), Str("Untitled")), error |-> message]

\* ReadFile with the handler of line 690 outside the loop over the files: a
\* file that cannot be parsed ends the loop.
ReadFileEndsLoop ==
  /\ pc = "files"
  /\ \E c \in FileContents(MaxTotal - results.total) :
       IF ~c.ok
       THEN /\ results' = [results EXCEPT !.errors = Append(@, FileErrorEntry(FileErrorMessage))]
            /\ publicationsArray' = <<>>
            /\ fileIdx' = Len(files) + 1
            /\ recIdx' = 0
            /\ pc' = "summary"
       ELSE LET arr == IF c.json.t = "arr" THEN c.json.a ELSE <<c.json>>
            IN /\ results' = [results EXCEPT !.total = @ + Len(arr)]
               /\ publicationsArray' = arr
               /\ IF Len(arr) = 0
                  THEN NextFile
                  ELSE /\ recIdx' = 1
                       /\ pc' = "records"
                       /\ UNCHANGED fileIdx
  /\ UNCHANGED <<argVars, calls, files, clientVars, rlOpen, asked, answers, exitCode, seen, recVars>>

\* Lines 622-636 and 690-696: read and parse the file.  A failure is caught at
\* line 690: one file-level entry, and on to the next file.  Otherwise the
\* value parsed, wrapped in an array unless it is one, is counted in total.
ReadFile ==
  /\ pc = "files"
  /\ \E c \in FileContents(MaxTotal - results.total) :
       IF ~c.ok
       THEN /\ results' = [results EXCEPT !.errors = Append(@, FileErrorEntry(FileErrorMessage))]
            /\ publicationsArray' = <<>>
            /\ NextFile
       ELSE LET arr == IF c.json.t = "arr" THEN c.json.a ELSE <<c.json>>
            IN /\ results' = [results EXCEPT !.total = @ + Len(arr)]
               /\ publicationsArray' = arr
               /\ IF Len(arr) = 0
                  THEN NextFile
                  ELSE /\ recIdx' = 1
                       /\ pc' = "records"
                       /\ UNCHANGED fileIdx
  /\ UNCHANGED <<argVars, calls, files, clientVars, rlOpen, asked, answers, exitCode, seen, recVars>>

\* The record the loop at line 639 stands at.
CurrentRecord == publicationsArray[recIdx]

\* One pass of the loop body, lines 639-689, over CurrentRecord: v is what
\* validatePublication returned and prep what preparePublicationForInsertion
\* returned (NoPrepared when it was not called); the object in the array is
\* the one both wrote into.
LoopBody(v, prep) ==
  /\ pc = "records"
  /\ seen' = Append(seen, [file |-> fileIdx, rec |-> recIdx, raw |-> CurrentRecord])
  /\ validation' = v
  /\ preparedPublication' = prep
  /\ publication' = IF prep = NoPrepared THEN v.pub ELSE prep.pub
  /\ publicationsArray' = [publicationsArray EXCEPT ![recIdx] = IF prep = NoPrepared THEN v.pub ELSE prep.pub]
  /\ UNCHANGED <<argVars, calls, files, rlOpen, asked, answers, exitCode>>

\* Lines 642 and 679-687, 690-696: validatePublication throws on null; the
\* handler of line 679 reads publication.title and throws in its turn; that
\* error leaves the loop over the records and is caught at line 690.
RecordThrowsInHandler ==
  /\ pc = "records"
  /\ Validation(CurrentRecord).threw
  /\ LoopBody(Validation(CurrentRecord), NoPrepared)
  /\ results' = [results EXCEPT !.errors =
                   Append(@, FileErrorEntry("Cannot read properties of "
                               \o JsToString(CurrentRecord) \o " (reading 'title')"))]
  /\ NextFile
  /\ UNCHANGED clientVars

\* RecordInvalid without the continue of line 654: the record is counted too.
RecordInvalidCounted ==
  /\ pc = "records"
  /\ \E v \in {Validation(CurrentRecord)} :
        /\ ~v.threw
        /\ ~v.valid
        /\ LoopBody(v, NoPrepared)
        /\ results' = [results EXCEPT !.errors = Append(@, RecordErrorEntry(v.pub, v.error)),
                                      !.success = @ + 1]
  /\ NextRecord
  /\ UNCHANGED clientVars

\* Lines 642-655: the record is invalid: one entry, and on to the next record.
RecordInvalid ==
  /\ pc = "records"
  /\ \E v \in {Validation(CurrentRecord)} :
        /\ ~v.threw
        /\ ~v.valid
        /\ LoopBody(v, NoPrepared)
        /\ results' = [results EXCEPT !.errors = Append(@, RecordErrorEntry(v.pub, v.error))]
  /\ NextRecord
  /\ UNCHANGED clientVars

\* Lines 658-659 and 679-688: preparePublicationForInsertion throws.
RecordPrepareThrows ==
  /\ pc = "records"
  /\ \E v \in {Validation(CurrentRecord)} :
        /\ v.valid
        /\ \E r \in RandomDraws, now \in NowPool :
             \E prep \in {Preparation(CurrentRecord, r, now)} :
                /\ prep.threw
                /\ LoopBody(v, prep)
                /\ results' = [results EXCEPT !.errors = Append(@, RecordErrorEntry(prep.pub, prep.error))]
  /\ NextRecord
  /\ UNCHANGED clientVars

\* Lines 658-666 and 678: a dry run counts the record and writes nothing.
RecordDryRun ==
  /\ pc = "records"
  /\ isDryRun
  /\ \E v \in {Validation(CurrentRecord)} :
        /\ v.valid
        /\ \E r \in RandomDraws, now \in NowPool :
             \E prep \in {Preparation(CurrentRecord, r, now)} :
                /\ ~prep.threw
                /\ LoopBody(v, prep)
  /\ results' = [results EXCEPT !.success = @ + 1]
  /\ NextRecord
  /\ UNCHANGED clientVars

\* RecordInsert with a write that fails counted as written: success is
\* incremented as well as the entry pushed.
RecordInsertCountsFailure ==
  /\ pc = "records"
  /\ ~isDryRun
  /\ \E v \in {Validation(CurrentRecord)} :
        /\ v.valid
        /\ \E r \in RandomDraws, now \in NowPool :
             \E prep \in {Preparation(CurrentRecord, r, now)} :
                /\ ~prep.threw
                /\ \E collectionName \in {CategoryLookup(Get(prep.prepared, "category"))} :
                   /\ LoopBody(v, prep)
                   /\ IF collectionName.t # "str"
                      THEN /\ results' = [results EXCEPT !.errors =
                                            Append(@, RecordErrorEntry(prep.pub, CollectionErrorMessage))]
                           /\ UNCHANGED <<inserted, writes>>
                      ELSE \E ok \in BOOLEAN :
                             /\ writes' = Append(writes, [file |-> fileIdx, rec |-> recIdx,
                                                         collection |-> collectionName.s])
                             /\ IF ok
                                THEN /\ inserted' = Append(inserted, [collection |-> collectionName.s,
                                                                      doc |-> prep.prepared])
                                     /\ results' = [results EXCEPT !.success = @ + 1]
                                ELSE /\ results' = [results EXCEPT
                                                      !.errors = Append(@, RecordErrorEntry(prep.pub, InsertErrorMessage)),
                                                      !.success = @ + 1]
                                     /\ UNCHANGED inserted
  /\ NextRecord
  /\ UNCHANGED <<clientState, connects, closes>>

\* Lines 658-661, 667-678 and 679-688: insertOne into the collection of the
\* category.  The write succeeds and the record is counted, or it fails and
\* the handler of line 679 pushes one entry; a collection name that is not a
\* string is refused.
RecordInsert ==
  /\ pc = "records"
  /\ ~isDryRun
  /\ \E v \in {Validation(CurrentRecord)} :
        /\ v.valid
        /\ \E r \in RandomDraws, now \in NowPool :
             \E prep \in {Preparation(CurrentRecord, r, now)} :
                /\ ~prep.threw
                /\ \E collectionName \in {CategoryLookup(Get(prep.prepared, "category"))} :
                   /\ LoopBody(v, prep)
                   /\ IF collectionName.t # "str"
                      THEN /\ results' = [results EXCEPT !.errors =
                                            Append(@, RecordErrorEntry(prep.pub, CollectionErrorMessage))]
                           /\ UNCHANGED <<inserted, writes>>
                      ELSE \E ok \in BOOLEAN :
                             /\ writes' = Append(writes, [file |-> fileIdx, rec |-> recIdx,
                                                         collection |-> collectionName.s])
                             /\ IF ok
                                THEN /\ inserted' = Append(inserted, [collection |-> collectionName.s,
                                                                      doc |-> prep.prepared])
                                     /\ results' = [results EXCEPT !.success = @ + 1]
                                ELSE /\ results' = [results EXCEPT !.errors =
                                                      Append(@, RecordErrorEntry(prep.pub, InsertErrorMessage))]
                                     /\ UNCHANGED inserted
  /\ NextRecord
  /\ UNCHANGED <<clientState, connects, closes>>

\* Lines 700-720: the summary is printed.
Summary ==
  /\ pc = "summary"
  /\ pc' = "finally"
  /\ UNCHANGED <<argVars, calls, loopVars, results, clientVars, rlOpen, asked, answers, exitCode, seen, recVars>>

\* Finally with an exit status that tells whether the run had errors.
FinallyFailsOnErrors ==
  /\ pc = "finally"
  /\ rlOpen' = FALSE
  /\ IF ~isDryRun
     THEN clientState' = "closed" /\ closes' = closes + 1
     ELSE UNCHANGED <<clientState, closes>>
  /\ pc' = "done"
  /\ exitCode' = IF Len(results.errors) > 0 THEN 1 ELSE 0
  /\ UNCHANGED <<argVars, calls, loopVars, results, connects, inserted, writes, asked, answers, seen, recVars>>

\* Finally without the client.close() of line 728.
FinallyLeavesClientOpen ==
  /\ pc = "finally"
  /\ rlOpen' = FALSE
  /\ pc' = "done"
  /\ exitCode' = 0
  /\ UNCHANGED <<argVars, calls, loopVars, results, clientVars, asked, answers, seen, recVars>>

\* Lines 724-735: the readline interface and, unless --dry-run, the client
\* are closed; nothing is left to run and the process ends with status 0.
Finally ==
  /\ pc = "finally"
  /\ rlOpen' = FALSE
  /\ IF ~isDryRun
     THEN clientState' = "closed" /\ closes' = closes + 1
     ELSE UNCHANGED <<clientState, closes>>
  /\ pc' = "done"
  /\ exitCode' = 0
  /\ UNCHANGED <<argVars, calls, loopVars, results, connects, inserted, writes, asked, answers, seen, recVars>>

Next ==
  \/ CheckArgs
  \/ CheckSourceDir
  \/ ListFiles
  \/ Confirm
  \/ Connect
  \/ ReadFile
  \/ RecordThrowsInHandler
  \/ RecordInvalid
  \/ RecordPrepareThrows
  \/ RecordDryRun
  \/ RecordInsert
  \/ Summary
  \/ Finally

\* A run of uploadPublications over files drawn as they are read.
Spec == Init /\ [][Next]_vars

\* The same run under the scheduling of the program: one flow of control,
\* in which the step that comes next is taken (every await of
\* uploadPublications settles).
FairSpec == Spec /\ WF_vars(Next)

\* --------------------------------------------------- one record, any shape
\* The values a field of a record takes; Undef stands for a field left out.
FieldValues ==
  [title : {Undef, Str("Casa"), Num(7)},
   description : {Undef, Str("Casa en venta")},
   category : {Undef, Str("empleos"), Str("mascotas"), Str("constructor")},
   categorySlug : {Undef, Str("vehiculos")},
   price : {Undef, Num(-5), Num(0), Str("abc"), Str("12")},
   amount : {Undef, Num(-5), Num(7), Str("abc")},
   location : {Undef, Obj(EmptyMap), Obj([address |-> Str("Av. El Sol 100")]),
               Obj([district |-> Str("Wanchaq")]),
               Obj([city |-> Str("Lima"), district |-> Str("Miraflores")]),
               Obj([province |-> Str("Urubamba")])},
   contact : {Undef, Obj([phones |-> Arr(<<Str("987")>>), name |-> Str("Ana")]),
              Obj([phones |-> Arr(<<>>)]),
              Obj([phone |-> Str("987")]),
              Obj([name |-> Str("Ana"), phone |-> Str("987"), whatsapp |-> Str("987"),
                   email |-> Str("ana@example.com")])},
   id : {Undef, Str("a_b"), Num(7)}]

\* The object with the fields of a that are given.
RecordOf(a) == Obj([k \in {f \in DOMAIN a : a[f] # Undef} |-> a[k]])

\* The values the fields defaulted at assembly time (lines 528-560) take, in a
\* record that is valid otherwise: left out, given, and given with a value
\* that is falsy.
AssemblyFieldValues ==
  [title : {Str("Casa")},
   description : {Str("Casa en venta")},
   category : {Str("empleos")},
   price : {Undef, Num(0), Num(5), Str("12")},
   amount : {Undef, Num(7)},
   currency : {Undef, Str("USD"), Str("")},
   status : {Undef, Str("sold"), Str("")},
   user_id : {Undef, Str("u1"), Num(0)},
   images : {Undef, Arr(<<Str("a.jpg")>>), Arr(<<>>)},
   created_at : {Undef, Str("2020-01-01T00:00:00.000Z"), Null},
   updated_at : {Undef, Str("2021-01-01T00:00:00.000Z")}]

\* The records one file of one record may hold: the objects, and values that
\* are no objects.
RecInputs == {RecordOf(a) : a \in FieldValues} \cup {Null, Num(5), Str("abc"), Arr(<<>>)}

\* The values the fields migrated by preparePublicationForInsertion (lines
\* 480-525) take, in a record that is valid otherwise: the id left out, given
\* without and with an underscore, empty, and given as a number; the current
\* and the legacy names of the subcategories, of the features and of the price.
MigrationFieldValues ==
  [title : {Str("Casa")},
   description : {Str("Casa en venta")},
   category : {Str("empleos")},
   categorySlug : {Undef, Str("vehiculos")},
   id : {Undef, Str("abc"), Str("a_b"), Str(""), Num(0), Num(7)},
   subcategory : {Undef, Str("ventas")},
   subcategorySlug : {Undef, Str("alquiler")},
   subsubcategory : {Undef, Str("casas")},
   subSubcategorySlug : {Undef, Str("lotes")},
   features : {Undef, Obj([rooms |-> Num(3), area |-> Num(80)])},
   attributes : {Undef, Obj([area |-> Num(90), floor |-> Num(2)])},
   amount : {Undef, Num(7)}]

\* The records that try the defaults of the assembly.
AssemblyInputs == {RecordOf(a) : a \in AssemblyFieldValues}

\* The records that try the migration of the legacy fields and the id.
MigrationInputs == {RecordOf(a) : a \in MigrationFieldValues}

\* The run stands at the only record of its only file: a forced dry run that
\* has read file1.json, whose content is one record.
RecInit ==
  /\ isDryRun = TRUE
  /\ isForce = TRUE
  /\ hasSourceDir = TRUE
  /\ pc = "records"
  /\ files = <<FileName(1)>>
  /\ fileIdx = 1
  /\ \/ \E r \in RecInputs : publicationsArray = <<r>>
     \/ \E r \in AssemblyInputs : publicationsArray = <<r>>
     \/ \E r \in MigrationInputs : publicationsArray = <<r>>
  /\ recIdx = 1
  /\ results = [total |-> 1, success |-> 0, errors |-> <<>>, skipped |-> 0]
  /\ clientState = "idle"
  /\ connects = 0
  /\ closes = 0
  /\ inserted = <<>>
  /\ writes = <<>>
  /\ rlOpen = TRUE
  /\ asked = 0
  /\ answers = <<>>
  /\ exitCode = -1
  /\ NoRecordYet
  /\ calls = <<>>

RecNext ==
  \/ RecordThrowsInHandler
  \/ RecordInvalid
  \/ RecordPrepareThrows
  \/ RecordDryRun
  \/ Summary
  \/ Finally

\* The loop body on one record drawn from RecInputs.
SpecRec == RecInit /\ [][RecNext]_vars

\* The records of a file that is written: a valid one for each key of
\* CATEGORY_COLLECTIONS, one whose category is a property every object
\* inherits, one without a title, null, and one whose title is a number.
WritePool ==
  {Set(GoodRecord, "category", Str(CategoryKeys[i])) : i \in 1..Len(CategoryKeys)}
    \cup { Set(GoodRecord, "category", Str("constructor")),
           Obj([description |-> Str("Casa en venta"), category |-> Str("inmuebles"), price |-> Num(-5)]),
           Null,
           Set(GoodRecord, "title", Num(7)) }

\* The records read from one file of a run that writes.
MaxWritten == 2

\* The run stands at the first record of its only file: a forced run, no dry
\* run, that has connected and has read file1.json.
WriteInit ==
  /\ isDryRun = FALSE
  /\ isForce = TRUE
  /\ hasSourceDir = TRUE
  /\ pc = "records"
  /\ files = <<FileName(1)>>
  /\ fileIdx = 1
  /\ \E k \in 1..MaxWritten : publicationsArray \in [1..k -> WritePool]
  /\ recIdx = 1
  /\ results = [total |-> Len(publicationsArray), success |-> 0, errors |-> <<>>, skipped |-> 0]
  /\ clientState = "connected"
  /\ connects = 1
  /\ closes = 0
  /\ inserted = <<>>
  /\ writes = <<>>
  /\ rlOpen = TRUE
  /\ asked = 0
  /\ answers = <<>>
  /\ exitCode = -1
  /\ NoRecordYet
  /\ calls = <<>>

WriteNext ==
  \/ RecordThrowsInHandler
  \/ RecordInvalid
  \/ RecordPrepareThrows
  \/ RecordInsert
  \/ Summary
  \/ Finally

\* The loop body of a run that writes, on the records of one file drawn from
\* WritePool.
SpecWrite == WriteInit /\ [][WriteNext]_vars

\* ------------------------------------------------- the functions of a title
\* n times the character c.
Rep(c, n) == [i \in 1..n |-> c]

\* The title of the example: ¡Vendo Casa Bonita!
ExampleTitle == <<"U+00A1">> \o Ascii("Vendo Casa Bonita!")

\* The titles generateSlug and detectCategory are called on: empty, plain,
\* with white space at the ends and in runs, with hyphens, underscores,
\* digits, punctuation and accents, longer than MaxSlugLen with and without a
\* space at the cut, and with the keywords of no rule, one rule or two.
TitlePool ==
  { <<>>,
    Ascii("Casa"),
    ExampleTitle,
    Ascii(" Se vende "),
    Ascii("a  b"),
    Ascii("a-b"),
    Ascii("a - b"),
    Ascii("a_b"),
    Ascii("-"),
    Ascii(" "),
    Ascii("!!"),
    Ascii("100% real"),
    <<"U+00D1", "a", "U+00E0", "U+00FC">>,
    Rep("a", MaxSlugLen - 1) \o Ascii(" b"),
    Rep("a", MaxSlugLen + 5),
    Rep("a", MaxSlugLen - 2) \o Ascii("  b"),
    Ascii("Vendo casa"),
    Ascii("VENDO LOTE"),
    Ascii("Alquilo auto"),
    Ascii("Vendo moto"),
    Ascii("Vendo bicicleta"),
    Ascii("Necesito profesor"),
    Ascii("Se necesita servicio"),
    Ascii("Clases de fiesta"),
    Ascii("Gran fiesta"),
    Ascii("Evento de la comunidad"),
    Ascii("Perro perdido"),
    Ascii("Traspaso negocio"),
    Ascii("Negocio perdido"),
    Ascii("Autoridad"),
    Ascii("Empleo"),
    Ascii("Habitaci") \o <<"U+00F3">> \o Ascii("n"),
    Ascii("HABITACI") \o <<"U+00D3">> \o Ascii("N"),
    Ascii("Inversi") \o <<"U+00F3">> \o Ascii("n"),
    Ascii("Donaci") \o <<"U+00F3">> \o Ascii("n de veh") \o <<"U+00ED">> \o Ascii("culo"),
    Ascii("Hola") }

\* generateSlug and detectCategory on each title of TitlePool: the calls the
\* runs over TitlePool make, computed once.
SlugTable == [t \in TitlePool |-> generateSlug(t)]
CategoryTable == [t \in TitlePool |-> detectCategory(t)]

\* The calls one run of the title functions makes at most.
MaxCalls == 2

\* The program as loaded, with no call made yet.
TitleInit ==
  /\ Init
  /\ isDryRun
  /\ ~isForce
  /\ hasSourceDir

\* Lines 261-275: one call of generateSlug.
CallGenerateSlug ==
  /\ Len(calls) < MaxCalls
  /\ \E title \in TitlePool :
       calls' = Append(calls, [fn |-> "generateSlug", title |-> title, result |-> SlugTable[title]])
  /\ UNCHANGED runVars

\* Lines 280-380: one call of detectCategory.
CallDetectCategory ==
  /\ Len(calls) < MaxCalls
  /\ \E title \in TitlePool :
       calls' = Append(calls, [fn |-> "detectCategory", title |-> title, result |-> CategoryTable[title]])
  /\ UNCHANGED runVars

TitleNext ==
  \/ CallGenerateSlug
  \/ CallDetectCategory

\* Calls of generateSlug and detectCategory on titles drawn from TitlePool.
SpecTitle == TitleInit /\ [][TitleNext]_vars

\* ================================================================== claims
\* The run has left the loop over the files.
AfterLoop == pc \in {"summary", "finally", "done"}

\* validatePublication returns valid for r and preparePublicationForInsertion
\* returns a canonical publication for what it validated.
PassesBoth(r) ==
  /\ validatePublication(r).valid
  /\ \E d \in RandomDraws, now \in NowPool :
       ~preparePublicationForInsertion(validatePublication(r).pub, generateShortId(d), now).threw

\* The entries of errors that carry a title: the record-level ones.
RecordLevelErrors == {i \in DOMAIN results.errors : "title" \in DOMAIN results.errors[i]}

\* The records of file f handed to validatePublication.
SeenOfFile(f) == {i \in DOMAIN seen : seen[i].file = f}

\* No write to the Sink failed in this run.
NoWriteFailed ==
  \A i \in DOMAIN results.errors :
    results.errors[i].error \notin {InsertErrorMessage, CollectionErrorMessage}

\* C1: a failure on one record never keeps the later records of its file
\* from being processed: once the loop over the files is left, every record
\* counted in total has been handed to validatePublication.
C1_EveryRecordProcessed == AfterLoop => Len(seen) = results.total

\* C2: a record validatePublication returns invalid for adds exactly one
\* entry (file, title or "Untitled", reason), leaves success, total and the
\* Sink alone, and the loop goes on with the next record of the same file;
\* and a file of 3 records of which only the second is invalid ends with
\* total = 3, success = 2 and one error, when no write fails.
C2_InvalidStep ==
  (/\ pc = "records"
   /\ ~validatePublication(CurrentRecord).threw
   /\ ~validatePublication(CurrentRecord).valid)
  => /\ results'.errors = Append(results.errors,
                            [file |-> files[fileIdx],
                             title |-> IF Truthy(Get(CurrentRecord, "title"))
                                       THEN Get(CurrentRecord, "title") ELSE Str("Untitled"),
                             error |-> validatePublication(CurrentRecord).error])
     /\ results'.success = results.success
     /\ results'.total = results.total
     /\ inserted' = inserted
     /\ recIdx < Len(publicationsArray)
          => pc' = "records" /\ fileIdx' = fileIdx /\ recIdx' = recIdx + 1

C2_ThreeRecordFile ==
  (/\ pc = "done"
   /\ Len(files) = 1
   /\ Len(seen) = 3
   /\ PassesBoth(seen[1].raw)
   /\ seen[2].raw # Null /\ ~validatePublication(seen[2].raw).valid
   /\ PassesBoth(seen[3].raw)
   /\ NoWriteFailed)
  => results.total = 3 /\ results.success = 2 /\ Len(results.errors) = 1

C2_InvalidRecordSkipped == [][C2_InvalidStep]_vars /\ []C2_ThreeRecordFile

C2_Witness ==
  /\ pc = "done"
  /\ Len(files) = 1
  /\ Len(seen) = 3
  /\ PassesBoth(seen[1].raw)
  /\ seen[2].raw # Null /\ ~validatePublication(seen[2].raw).valid
  /\ PassesBoth(seen[3].raw)
  /\ results = [total |-> 3, success |-> 2, skipped |-> 0,
                errors |-> <<[file |-> FileName(1), title |-> Str("Untitled"),
                              error |-> "Missing required fields: title"]>>]

\* C3: a file that cannot be read or parsed adds exactly one file-level
\* entry, adds nothing to total or success, and the loop goes on with the
\* next file; in a run of two files of which the first could not be parsed,
\* the records of the second are all processed, and those that pass the
\* validator and the normalizer are the successes when no write fails.
C3_FileFailureStep ==
  (pc = "files" /\ results'.errors # results.errors)
  => /\ results'.errors = Append(results.errors,
                            [file |-> files[fileIdx], error |-> "File error: " \o FileErrorMessage])
     /\ results'.total = results.total
     /\ results'.success = results.success
     /\ inserted' = inserted
     /\ seen' = seen
     /\ fileIdx' = fileIdx + 1
     /\ pc' = IF fileIdx < Len(files) THEN "files" ELSE "summary"

\* The first of two files could not be parsed.
FirstOfTwoFailed ==
  /\ Len(files) = 2
  /\ Len(results.errors) > 0
  /\ results.errors[1] = [file |-> FileName(1), error |-> "File error: " \o FileErrorMessage]

C3_LaterFileProcessed ==
  (AfterLoop /\ FirstOfTwoFailed)
  => /\ \A i \in DOMAIN seen : seen[i].file = 2
     /\ (\A i \in DOMAIN seen : seen[i].raw # Null) => Len(seen) = results.total
     /\ NoWriteFailed => results.success = Cardinality({i \in DOMAIN seen : PassesBoth(seen[i].raw)})

C4_DryRunWritesNothing ==
  isDryRun =>
    /\ clientState = "idle"
    /\ connects = 0
    /\ closes = 0
    /\ inserted = <<>>
    /\ results.success = Cardinality({i \in DOMAIN seen : PassesBoth(seen[i].raw)})

C4_Witness ==
  /\ isDryRun
  /\ pc = "done"
  /\ results.success = 2
  /\ results.total = 3
  /\ Len(results.errors) = 1

\* The last record handed to validatePublication, as it was parsed.
LastRaw == seen[Len(seen)].raw

\* The category validatePublication checks: categorySlug when category is
\* missing.
EffectiveCategory(r) ==
  IF ~Truthy(Get(r, "category")) /\ Truthy(Get(r, "categorySlug"))
  THEN Get(r, "categorySlug")
  ELSE Get(r, "category")

\* The 8 names of the Category Table.
TableNames ==
  {Str("empleos"), Str("inmuebles"), Str("vehiculos"), Str("servicios"),
   Str("productos"), Str("eventos"), Str("negocios"), Str("comunidad")}

\* The canonical publication of the last record, Undef when there is none.
Canonical == preparedPublication.prepared

\* C5: the category of a record validatePublication returned valid for is
\* one of the 8 names of the Category Table.
C5_ValidCategoryInTable ==
  validation.valid => Get(validation.pub, "category") \in TableNames

\* C6: a record with a title and a description whose category, after the
\* categorySlug fallback, is none of the 8 names (or is missing) is invalid,
\* the error lists the 8 names, and the category is left as it was.
C6_UnknownCategoryRejected ==
  (/\ Len(seen) > 0
   /\ Truthy(Get(LastRaw, "title"))
   /\ Truthy(Get(LastRaw, "description"))
   /\ EffectiveCategory(LastRaw) \notin TableNames)
  => /\ ~validation.valid
     /\ validation.error =
          "Invalid category: " \o JsToString(EffectiveCategory(LastRaw))
            \o ". Valid categories: empleos, inmuebles, vehiculos, servicios, productos, eventos, negocios, comunidad"
     /\ Get(validation.pub, "category") = EffectiveCategory(LastRaw)

\* The price of r is given and parseFloat makes no number >= 0 of it.
BadPrice(r) ==
  /\ Get(r, "price") # Undef
  /\ LET x == ParseFloat(Get(r, "price")) IN x.t = "nan" \/ x.n < 0

\* The error of line 460 for the price of r.
PriceMessage(r) == "Invalid price: " \o JsToString(Get(r, "price"))

\* The successes are among the records whose price is not bad.
BadPriceNotCounted ==
  results.success <= Cardinality({i \in DOMAIN seen : ~BadPrice(seen[i].raw)})

C8_PriceNonNegativeNumber ==
  Canonical # Undef => Get(Canonical, "price").t = "num" /\ Get(Canonical, "price").n >= 0

\* C9: every canonical publication has location.city.
C9_CityPresent ==
  Canonical # Undef => Get(Get(Canonical, "location"), "city") # Undef

\* C10: the contact of every canonical publication has name, phone, whatsapp
\* and email.
C10_ContactComplete ==
  Canonical # Undef =>
    \A k \in {"name", "phone", "whatsapp", "email"} : Get(Get(Canonical, "contact"), k) # Undef

DefaultedFields == {"status", "created_at", "updated_at", "images", "user_id", "currency"}
DefaultOf(f) ==
  CASE f = "status" -> {Str("active")}
    [] f = "images" -> {Arr(<<>>)}
    [] f = "user_id" -> {Str("admin")}
    [] f = "currency" -> {Str("PEN")}
    [] OTHER -> NowPool

\* The price of the canonical publication: 0 when the record has neither
\* price nor amount, the price of the record when it has one.
PriceDefaulted ==
  /\ (Get(LastRaw, "price") = Undef /\ Get(LastRaw, "amount") = Undef)
       => Get(Canonical, "price") = Num(0)
  /\ Get(LastRaw, "price") # Undef => Get(Canonical, "price") = Get(LastRaw, "price")

\* C12 as stated: the price is 0 without price and amount, the currency
\* "PEN" without currency; a price, currency, status, user_id, images,
\* created_at or updated_at the record has is kept as it is, and the default
\* is there only when the record has no such field.
C12_DefaultsOnlyWhenAbsent ==
  Canonical # Undef =>
    /\ PriceDefaulted
    /\ \A f \in DefaultedFields :
         IF Get(LastRaw, f) = Undef
         THEN Get(Canonical, f) \in DefaultOf(f)
         ELSE Get(Canonical, f) = Get(LastRaw, f)

\* C12, amended: as stated for the price; for currency, status, user_id,
\* images, created_at and updated_at a value of the record is kept when it
\* is truthy, and the default replaces a field that is absent or whose value
\* is falsy ("", 0, null, false).
C12_DefaultsWhenAbsentOrFalsy ==
  Canonical # Undef =>
    /\ PriceDefaulted
    /\ \A f \in DefaultedFields :
         IF Truthy(Get(LastRaw, f))
         THEN Get(Canonical, f) = Get(LastRaw, f)
         ELSE Get(Canonical, f) \in DefaultOf(f)

C12_Witness ==
  /\ pc = "done"
  /\ results.success = 1
  /\ DOMAIN LastRaw.f = {"title", "description", "category", "currency", "status"}
  /\ Get(LastRaw, "currency") = Str("USD")
  /\ Get(LastRaw, "status") = Str("")
  /\ Get(Canonical, "price") = Num(0)
  /\ Get(Canonical, "currency") = Str("USD")
  /\ Get(Canonical, "status") = Str("active")
  /\ Get(Canonical, "user_id") = Str("admin")

\* The records handed to validatePublication that it returned invalid for.
InvalidSeen == {i \in DOMAIN seen : seen[i].raw # Null /\ ~validatePublication(seen[i].raw).valid}

\* C13: at the end of a run, skipped is the number of records skipped
\* because validatePublication returned invalid for them.
C13_SkippedCountsInvalid ==
  pc = "done" => results.skipped = Cardinality(InvalidSeen)

\* The startup conditions are passed: the loop over the files has started.
StartupPassed == pc \in {"files", "records", "summary", "finally", "done"}

\* An exit status other than 0 is that of a run stopped before the loop over
\* the files: nothing was read, and the client is not connected.
NonZeroOnlyAtStartup ==
  exitCode \notin {-1, 0} =>
    /\ pc = "exited"
    /\ fileIdx = 0
    /\ results.total = 0
    /\ results.errors = <<>>
    /\ clientState # "connected"

\* The run ends only by way of the summary: the finally block is entered from
\* the summary, and the end from the finally block.
EndsThroughSummary ==
  /\ pc' = "finally" /\ pc # "finally" => pc = "summary"
  /\ pc' = "done" /\ pc # "done" => pc = "finally"

Declined ==
  /\ answers # <<>>
  /\ ToLowerCase(answers[1]) \notin {"yes", "y"}

\* Nothing was done for the import: no connection, no file read, no record
\* handled, nothing written.
NothingDone ==
  /\ connects = 0
  /\ clientState = "idle"
  /\ fileIdx = 0
  /\ publicationsArray = <<>>
  /\ seen = <<>>
  /\ results = [total |-> 0, success |-> 0, errors |-> <<>>, skipped |-> 0]
  /\ inserted = <<>>

\* C15 as stated: an answer other than yes ends the run at once with an exit
\* status other than 0, and nothing was done for the import.
C15_DeclineExitsNonZero ==
  Declined => pc = "exited" /\ exitCode \notin {-1, 0} /\ NothingDone

\* C15, amended: an answer other than yes ends the run at once with exit
\* status 0 (line 602), and nothing was done for the import.
C15_DeclineExitsZero ==
  Declined => pc = "exited" /\ exitCode = 0 /\ NothingDone

C15_Witness ==
  /\ answers = <<"no">>
  /\ asked = 1
  /\ pc = "exited"
  /\ exitCode = 0
  /\ Len(files) > 0

\* The answer given to the one question is "yes" or "y", whatever its case.
Accepted ==
  /\ Len(answers) = 1
  /\ ToLowerCase(answers[1]) \in {"yes", "y"}

\* C16: without --force and --dry-run the question is asked once, after the
\* startup checks (no question in a run they stop) and before the client
\* connects or writes, and nothing is written unless the answer was "yes" or
\* "y" in any case; with --force or --dry-run no question is asked.
C16_PromptOnceBeforeWrites ==
  /\ asked = Len(answers)
  /\ asked \in {0, 1}
  /\ isForce \/ isDryRun => asked = 0
  /\ ~isForce /\ ~isDryRun =>
       /\ pc \in {"start", "exists", "readdir", "confirm"} =>
            asked = 0 /\ connects = 0 /\ inserted = <<>>
       /\ pc \in {"connect", "files", "records", "summary", "finally", "done"} =>
            asked = 1 /\ Accepted
       /\ pc = "exited" /\ asked = 0 => exitCode = 1 /\ connects = 0 /\ inserted = <<>>
       /\ connects > 0 \/ inserted # <<>> => asked = 1 /\ Accepted

C16_Witness ==
  /\ ~isForce /\ ~isDryRun
  /\ pc = "done"
  /\ answers = <<"YES">>
  /\ asked = 1
  /\ connects = 1
  /\ Len(inserted) = 2

\* The step is one in which the write of the record at hand failed: insertOne
\* reported its failure, and the handler of line 679 pushed it.
WriteFailedStep ==
  /\ pc = "records"
  /\ ~isDryRun
  /\ Len(results'.errors) > Len(results.errors)
  /\ results'.errors[Len(results'.errors)].error = InsertErrorMessage

\* C17: a write that fails adds exactly one entry for the record (file,
\* title, message of the failure), leaves success and what was written
\* alone, and the loop goes on with the next record, or the next file after
\* the last record; what is written is counted in success at all times.
C17_WriteFailedStep ==
  WriteFailedStep
  => /\ results'.errors = Append(results.errors,
                            [file |-> files[fileIdx],
                             title |-> Get(CurrentRecord, "title"),
                             error |-> InsertErrorMessage])
     /\ results'.success = results.success
     /\ results'.total = results.total
     /\ inserted' = inserted
     /\ exitCode' = -1
     /\ IF recIdx < Len(publicationsArray)
        THEN pc' = "records" /\ fileIdx' = fileIdx /\ recIdx' = recIdx + 1
        ELSE pc' \in {"files", "summary"} /\ fileIdx' = fileIdx + 1

WrittenStaysWritten ==
  /\ Len(inserted') >= Len(inserted)
  /\ SubSeq(inserted', 1, Len(inserted)) = inserted
  /\ results'.success >= results.success

C17_WriteFailureRecorded ==
  /\ [][C17_WriteFailedStep]_vars
  /\ [][WrittenStaysWritten]_vars
  /\ [](~isDryRun => results.success = Len(inserted))

C17_Witness ==
  /\ pc = "done"
  /\ ~isDryRun
  /\ Len(files) = 1
  /\ results.total = 3
  /\ results.success = 2
  /\ Len(inserted) = 2
  /\ Len(results.errors) = 1
  /\ results.errors[1].error = InsertErrorMessage
  /\ results.errors[1].title = Str("Casa")

\* The insertOne calls made for the record seen[i].
WritesFor(i) == {k \in DOMAIN writes : writes[k].file = seen[i].file /\ writes[k].rec = seen[i].rec}

\* The category of the canonical publication of a record that passes
\* validation and normalization.
CanonicalCategory(r) ==
  LET prep == CHOOSE p \in {preparePublicationForInsertion(validatePublication(r).pub, generateShortId(d), now) :
                               d \in RandomDraws, now \in NowPool} : ~p.threw
  IN Get(prep.prepared, "category")

\* The keys of CATEGORY_COLLECTIONS are 8, and their collections are 8 too,
\* each named publications_<key>.
EightCollections ==
  /\ Len(CategoryKeys) = 8
  /\ Cardinality({CategoryLookup(Str(CategoryKeys[i])) : i \in 1..Len(CategoryKeys)}) = 8
  /\ \A i \in 1..Len(CategoryKeys) :
       CategoryLookup(Str(CategoryKeys[i])) = Str("publications_" \o CategoryKeys[i])

\* C18: in a run that writes, a record that passes validation and
\* normalization has caused exactly one insertOne call, into
\* publications_<category> for its canonical category; a record that fails
\* validation has caused none; no record is handled twice; and the 8
\* categories have 8 collections.
C18_OneWritePerRecord ==
  /\ EightCollections
  /\ \A i \in DOMAIN seen :
       /\ ~isDryRun /\ PassesBoth(seen[i].raw) =>
            /\ Cardinality(WritesFor(i)) = 1
            /\ \A k \in WritesFor(i) :
                 writes[k].collection = "publications_" \o JsToString(CanonicalCategory(seen[i].raw))
       /\ (seen[i].raw = Null \/ ~validatePublication(seen[i].raw).valid) => WritesFor(i) = {}
  /\ \A i, j \in DOMAIN seen :
       seen[i].file = seen[j].file /\ seen[i].rec = seen[j].rec => i = j
  /\ Len(writes) <= Len(seen)

\* The run has ended: the process has exited, or uploadPublications has
\* returned.
RunEnded == pc \in {"exited", "done"}

\* The client holds a connection, or held one and closed it.
Acquired == clientState \in {"connected", "closed"}

\* A step in which client.connect() is called is taken before any file is
\* read, in a run that is no dry run, by a client that never connected.
ConnectsBeforeFirstRecord ==
  connects' > connects =>
    /\ ~isDryRun
    /\ connects = 0
    /\ clientState = "idle"
    /\ fileIdx = 0
    /\ results.total = 0
    /\ seen = <<>>

NoLocation(r) == Get(r, "location") = Undef

\* The record has no contact information: no contact object, no contactPhone,
\* no contactEmail.
NoContactInformation(r) ==
  /\ Get(r, "contact") = Undef
  /\ Get(r, "contactPhone") = Undef
  /\ Get(r, "contactEmail") = Undef

\* C20: location and contact information are required: a record that has no
\* location, or no contact information, does not pass validation and is not
\* written.
C20_LocationContactRequired ==
  \A i \in DOMAIN seen :
    (/\ seen[i].raw.t = "obj"
     /\ NoLocation(seen[i].raw) \/ NoContactInformation(seen[i].raw))
    => /\ ~validatePublication(seen[i].raw).valid
       /\ WritesFor(i) = {}
       /\ \A k \in DOMAIN inserted : Get(inserted[k].doc, "title") # Get(seen[i].raw, "title")

\* The calls of generateSlug made so far.
SlugCalls == {i \in DOMAIN calls : calls[i].fn = "generateSlug"}

\* The characters of a URL-safe slug: a-z, 0-9, underscore and hyphen.
SlugAlphabet ==
  {LowerCase[i] : i \in 1..26} \cup {Digits[i] : i \in 1..10} \cup {"_", "-"}

UrlSafe(slug) ==
  /\ Len(slug) <= 80
  /\ \A i \in DOMAIN slug : slug[i] \in SlugAlphabet

\* C21: generateSlug is a function of the title alone (two calls on the same
\* title return the same slug, whatever was called before), every slug it
\* returns is URL-safe (at most 80 characters, each of a-z, 0-9, underscore,
\* hyphen), and the slug of "¡Vendo Casa Bonita!" is "vendo-casa-bonita".
C21_SlugDeterministicUrlSafe ==
  \A i \in SlugCalls :
    /\ UrlSafe(calls[i].result)
    /\ calls[i].title = ExampleTitle => calls[i].result = Ascii("vendo-casa-bonita")
    /\ \A j \in SlugCalls : calls[j].title = calls[i].title => calls[j].result = calls[i].result

\* Two calls of generateSlug on one title longer than 80 characters, the
\* second after a call on another title would be as good: the slug is cut.
C21_Witness ==
  \E i, j \in SlugCalls :
    /\ i < j
    /\ calls[i].title = calls[j].title
    /\ Len(calls[i].title) > 80
    /\ Len(calls[j].result) = 80

\* The slug has no two hyphens in a row and no hyphen at either end.
NoStrayHyphen(slug) ==
  /\ \A i \in 1..(Len(slug) - 1) : ~(slug[i] = "-" /\ slug[i + 1] = "-")
  /\ slug # <<>> => slug[1] # "-" /\ slug[Len(slug)] # "-"

\* C22: the slug generateSlug returns contains no two consecutive hyphens
\* and neither begins nor ends with a hyphen, for titles with white space at
\* the ends and titles cut at 80 characters too.
C22_NoStrayHyphens ==
  \A i \in SlugCalls : NoStrayHyphen(calls[i].result)

\* The calls of detectCategory made so far.
CategoryCalls == {i \in DOMAIN calls : calls[i].fn = "detectCategory"}

\* The rules of the claim, in its order, each with the keywords the source
\* gives it; the rule of productos is the keyword "vendo".
Rules ==
  << [category |-> "inmuebles",
      keywords |-> {Ascii("alquilo"), Ascii("alquiler"), Ascii("vendo terreno"), Ascii("vendo lote"),
                    Ascii("vendo casa"), Ascii("vendo departamento"), Ascii("anticresis"),
                    Ascii("inmueble"), Ascii("habitaci") \o <<"U+00F3">> \o Ascii("n"),
                    Ascii("oficina"), Ascii("local comercial")}],
     [category |-> "vehiculos",
      keywords |-> {Ascii("auto"), Ascii("camioneta"), Ascii("veh") \o <<"U+00ED">> \o Ascii("culo"),
                    Ascii("carro"), Ascii("moto"), Ascii("cami") \o <<"U+00F3">> \o Ascii("n")}],
     [category |-> "empleos",
      keywords |-> {Ascii("necesito"), Ascii("se necesita"), Ascii("busco personal"),
                    Ascii("oportunidad laboral"), Ascii("requiere personal"), Ascii("empleo")}],
     [category |-> "servicios",
      keywords |-> {Ascii("servicio"), Ascii("reparaci") \o <<"U+00F3">> \o Ascii("n"),
                    Ascii("mantenimiento"), Ascii("clases"), Ascii("profesor"), Ascii("terapia"),
                    Ascii("consultor") \o <<"U+00ED">> \o Ascii("a"),
                    Ascii("asesor") \o <<"U+00ED">> \o Ascii("a")}],
     [category |-> "productos", keywords |-> {Ascii("vendo")}],
     [category |-> "eventos",
      keywords |-> {Ascii("evento"), Ascii("fiesta"), Ascii("concierto"),
                    Ascii("celebraci") \o <<"U+00F3">> \o Ascii("n")}],
     [category |-> "comunidad",
      keywords |-> {Ascii("comunidad"), Ascii("perdido"), Ascii("encontrado"),
                    Ascii("donaci") \o <<"U+00F3">> \o Ascii("n")}],
     [category |-> "negocios",
      keywords |-> {Ascii("negocio"), Ascii("traspaso"), Ascii("inversi") \o <<"U+00F3">> \o Ascii("n")}] >>

\* The rules one of whose keywords occurs in the lowercased title.
MatchingRules(title) ==
  {n \in DOMAIN Rules : \E k \in Rules[n].keywords : Includes(LowerTitle(title), k)}

\* The category of the first matching rule, productos when there is none.
FirstRuleCategory(title) ==
  IF MatchingRules(title) = {} THEN "productos"
  ELSE Rules[CHOOSE n \in MatchingRules(title) : \A m \in MatchingRules(title) : n <= m].category

\* FirstRuleCategory on each title of TitlePool, computed once.
FirstRuleTable == [t \in TitlePool |-> FirstRuleCategory(t)]

\* C27: detectCategory returns one of the 8 names of the Category Table: the
\* category of the first rule, in the order inmuebles, vehiculos, empleos,
\* servicios, productos, eventos, comunidad, negocios, one of whose keywords
\* occurs in the lowercased title, and productos when no rule matches.
C27_FirstMatchingRule ==
  \A i \in CategoryCalls :
    /\ Str(calls[i].result) \in TableNames
    /\ calls[i].result = IF calls[i].title \in DOMAIN FirstRuleTable
                         THEN FirstRuleTable[calls[i].title]
                         ELSE FirstRuleCategory(calls[i].title)

\* detectCategory was called on a title that matches two rules, and on one
\* that matches none.
C27_Witness ==
  /\ \E i \in CategoryCalls :
       /\ Cardinality(MatchingRules(calls[i].title)) >= 2
       /\ calls[i].result = "vehiculos"
  /\ \E i \in CategoryCalls :
       /\ MatchingRules(calls[i].title) = {}
       /\ calls[i].result = "productos"

\* The first of the two fields f and g the record r has, Undef when it has
\* neither.
FallingBack(r, f, g) == IF Get(r, f) # Undef THEN Get(r, f) ELSE Get(r, g)

\* The URL path of the claim for the canonical publication c of the record r.
ExpectedUrlPath(r, c) ==
  LET S == IF FallingBack(r, "subcategory", "subcategorySlug") # Undef
           THEN FallingBack(r, "subcategory", "subcategorySlug").s
           ELSE "general"
      SS == IF FallingBack(r, "subsubcategory", "subSubcategorySlug") # Undef
            THEN FallingBack(r, "subsubcategory", "subSubcategorySlug").s
            ELSE ""
  IN "/" \o Get(c, "category").s \o "/" \o S
       \o (IF SS # "" THEN "/" \o SS ELSE "")
       \o "/" \o Get(c, "id_corto").s \o "-" \o Get(c, "slug").s

\* C23: the canonical URL path of a validated record is "/" + category + "/"
\* + S + ("/" + SS when SS is non-empty) + "/" + shortId + "-" + slug, with S
\* the subcategory (else subcategorySlug, else "general"), SS the
\* sub-subcategory (else subSubcategorySlug), and shortId and slug the ones
\* stored in the same canonical object.
C23_UrlPathComposition ==
  (seen # <<>> /\ validation.valid /\ Canonical # Undef)
    => Get(Canonical, "url_path") = Str(ExpectedUrlPath(LastRaw, Canonical))

\* A canonical publication whose subcategory and sub-subcategory both come
\* from the legacy names.
C23_Witness ==
  /\ seen # <<>>
  /\ validation.valid
  /\ Canonical # Undef
  /\ Get(LastRaw, "subcategory") = Undef
  /\ Get(LastRaw, "subcategorySlug") = Str("alquiler")
  /\ Get(LastRaw, "subsubcategory") = Undef
  /\ Get(LastRaw, "subSubcategorySlug") = Str("lotes")
  /\ Get(Canonical, "url_path") = Str("/empleos/alquiler/lotes/1000-casa")

\* The record has an id (an empty string is none), and the id written out
\* contains no underscore.
HasIdWithoutUnderscore(r) ==
  /\ Get(r, "id") \notin {Undef, Str("")}
  /\ \A i \in 1..Len(JsToString(Get(r, "id"))) : SubSeq(JsToString(Get(r, "id")), i, i) # "_"

\* C24: the canonical id of a validated record is the id the record came
\* with, as a string, when it has one that contains no underscore; otherwise
\* (no id, or an underscore in it) it is the short id stored in the same
\* canonical object.  Read on the records a canonical publication is
\* returned for.
C24_CanonicalId ==
  (seen # <<>> /\ validation.valid /\ Canonical # Undef)
    => Get(Canonical, "id") = IF HasIdWithoutUnderscore(LastRaw)
                              THEN Str(JsToString(Get(LastRaw, "id")))
                              ELSE Get(Canonical, "id_corto")

\* The last record came with features and legacy attributes, both mappings,
\* and a canonical publication was returned for it.
MergedFeatures ==
  /\ seen # <<>>
  /\ validation.valid
  /\ Canonical # Undef
  /\ Get(LastRaw, "features").t = "obj"
  /\ Get(LastRaw, "attributes").t = "obj"

\* The canonical features are the union of the mappings F and A, with the
\* value of F for the keys of both.
UnionPreferring(F, A) ==
  /\ Get(Canonical, "features").t = "obj"
  /\ DOMAIN Get(Canonical, "features").f = DOMAIN F.f \cup DOMAIN A.f
  /\ \A k \in DOMAIN F.f \cup DOMAIN A.f :
       Get(Canonical, "features").f[k] = IF k \in DOMAIN F.f THEN F.f[k] ELSE A.f[k]

\* C25 as stated: when a record has both features and legacy attributes, the
\* canonical features is the union of both and, for a key present in both,
\* the value of the features wins.
C25_FeaturesWin ==
  MergedFeatures => UnionPreferring(Get(LastRaw, "features"), Get(LastRaw, "attributes"))

\* C25, amended: when a record has both features and legacy attributes, the
\* canonical features is the union of both and, for a key present in both,
\* the value of the attributes wins.
C25_AttributesWin ==
  MergedFeatures => UnionPreferring(Get(LastRaw, "attributes"), Get(LastRaw, "features"))

\* A record with the key area in both mappings: the canonical features hold
\* the area of the attributes, and the keys of both.
C25_Witness ==
  /\ MergedFeatures
  /\ Get(LastRaw, "features") = Obj([rooms |-> Num(3), area |-> Num(80)])
  /\ Get(LastRaw, "attributes") = Obj([area |-> Num(90), floor |-> Num(2)])
  /\ Get(Canonical, "features") = Obj([rooms |-> Num(3), area |-> Num(90), floor |-> Num(2)])

\* The legacy fields.
LegacyFields == {"categorySlug", "subcategorySlug", "subSubcategorySlug", "attributes", "amount"}

\* C26: no canonical publication preparePublicationForInsertion returns has
\* any of the legacy fields categorySlug, subcategorySlug,
\* subSubcategorySlug, attributes, amount, whatever fields the record had.
C26_NoLegacyField ==
  Canonical # Undef => /\ Canonical.t = "obj"
                       /\ DOMAIN Canonical.f \cap LegacyFields = {}

\* A canonical publication returned for a record that had the five legacy
\* fields and the canonical fields they stand for.
C26_Witness ==
  /\ seen # <<>>
  /\ Canonical # Undef
  /\ \A f \in LegacyFields : Get(LastRaw, f) # Undef
  /\ Get(LastRaw, "subcategory") # Undef
  /\ Get(LastRaw, "features") # Undef

\* C28: preparePublicationForInsertion leaves the record passed to it
\* unchanged: its id, price and location are the same after the call as
\* before.
C28_ArgumentUnchanged ==
  (seen # <<>> /\ preparedPublication # NoPrepared)
    => \A f \in {"id", "price", "location"} :
         Get(preparedPublication.pub, f) = Get(validation.pub, f)

\* C30: preparePublicationForInsertion does not raise for a record
\* validatePublication returned valid for: it returns a canonical publication,
\* and the dry run counts the record as a success.
C30_PreparationNeverRaises ==
  (seen # <<>> /\ validation.valid)
    => /\ ~preparedPublication.threw
       /\ Canonical # Undef
       /\ isDryRun => results.success = 1

\* The entries of errors pushed at line 692: the file-level ones.
FileLevelErrors == DOMAIN results.errors \ RecordLevelErrors

\* The loop stands between two records: the records handed to
\* validatePublication so far have been processed to the end.
BetweenRecords == pc \in {"files", "records"} \/ AfterLoop

\* C29: after every record processed, the records processed so far number
\* success plus the record-level entries of errors; once the loop over the
\* files is left, total is that sum; and no record was processed (and so
\* counted in total) for a file that has a file-level entry.
C29_TotalBalances ==
  /\ BetweenRecords => Len(seen) = results.success + Cardinality(RecordLevelErrors)
  /\ AfterLoop => results.total = results.success + Cardinality(RecordLevelErrors)
  /\ \A i \in FileLevelErrors, j \in DOMAIN seen :
       files[seen[j].file] # results.errors[i].file

====
